---- MODULE Spec2Model ----
(***************************************************************************)
(* Model of the data-access cache (utils/gsheets.py, GoogleSheetsManager)  *)
(* and of the reminder scheduler (utils/scheduler.py, Scheduler) of the    *)
(* university Telegram bot.                                                *)
(*                                                                         *)
(* Time is in seconds.  The asyncio event loop is one thread: a coroutine  *)
(* runs from one await to the next without any other coroutine or          *)
(* scheduler callback running in between; `loop` names who is running.     *)
(***************************************************************************)
EXTENDS Integers, Sequences, FiniteSets, TLC

VARIABLES
    now,                \* time.time(), seconds
    service,            \* GoogleSheetsManager.service is not None
    sheets_id,          \* GoogleSheetsManager.sheets_id is set
    sheet,              \* the remote spreadsheet: revision of each table
    _cache,             \* GoogleSheetsManager._cache: table -> rows
    _cache_timestamps,  \* GoogleSheetsManager._cache_timestamps: table -> time
    co,                 \* the calls of get_sheet_data / get_sheet_data_sync in progress
    loop,               \* who occupies the event loop thread
    lastGet,            \* what the get that ran in the last step observed and returned
    pairing,            \* history: whether T's rows and timestamp are of one refresh
    prev,               \* history: the store of T that the latest store replaced
    invalidated,        \* history: T was cleared and no get(T) has started since
    bot,                \* Scheduler.bot is not None (TELEGRAM_BOT_TOKEN is set)
    payments_handler,   \* Scheduler.payments_handler is not None
    next_run_time,      \* job -> the next fire time the scheduler holds for it
    job,                \* job -> the run of it that is submitted or in progress
    ran,                \* history: the last run that was begun, or dropped as missed
    last_run,           \* history: job -> the time its handler was last begun
    lastFailure,        \* history: the last handler run that failed
    overlap,            \* history: work done while the fetch of caller c1 is in flight
    requests,           \* the number of interactive requests begun so far
    life,               \* the AsyncIOScheduler: its state, its job store, and history
    call                \* a call of a helper function: its arguments and its result

config == <<service, sheets_id>>
entries == <<_cache, _cache_timestamps>>
history == <<ran, last_run, lastFailure, overlap>>
sched == <<bot, payments_handler, next_run_time, job, ran, last_run, lastFailure, overlap,
           requests, life, call>>
vars == <<now, service, sheets_id, sheet, _cache, _cache_timestamps, co, loop,
          lastGet, pairing, prev, invalidated,
          bot, payments_handler, next_run_time, job, ran, last_run, lastFailure, overlap,
          requests, life, call>>

---------------------------------------------------------------------------
(* Bounds of the model *)

TicksPerWindow == 2
MaxTicks == 2

(* Program constants *)

_cache_duration == 300

TickSeconds == _cache_duration \div TicksPerWindow
MaxTime == MaxTicks * TickSeconds

Tables == {"pagos", "eventos"}
TablesOrNone == Tables \cup {"None"}
Callers == {"c1", "c2"}
\* the coroutines that call a get: two interactive requests and the reminder job
Slots == Callers \cup {"job"}
Forms == {"async", "sync"}
Outcomes == {"ok", "no_rows", "http_error", "exception"}
Revisions == {"r1", "r2"}
\* the sheets that are edited while the bot runs
Edited == {"pagos"}

\* The rows of table T at revision rev, as the list of dictionaries
\* _fetch_sheet_data builds from the sheet's values.
Rows(T, rev) == << [tabla |-> T, rev |-> rev] >>

NoAge == 0 - 1
LoopFree == [op |-> "free", c |-> "-", arg |-> "-"]
IdleCo == [pc |-> "idle", form |-> "-", table |-> "-", rows |-> <<>>,
           failed |-> FALSE, raised |-> FALSE, calls |-> 0]
\* lastGet.kind: "hit" (a get found its entry valid and returned it), "miss" (a get
\* found its entry not valid and started a refresh), "return" (a get that
\* refreshed returned), "none" (the last step was no step of a get's caller).
\* age and afterInv are what the get saw when it checked the cache; calls is
\* the number of calls of the remote source the get made.
NoGet == [kind |-> "none", table |-> "-", form |-> "-", rows |-> <<>>,
          failed |-> FALSE, calls |-> 0, age |-> NoAge, afterInv |-> FALSE]
\* no store of T that is still in its freshness window was replaced, with other
\* rows, by the latest store of T since T was last cleared
NoStore == [at |-> NoAge, rows |-> <<>>]

Drop(f, S) == [x \in (DOMAIN f) \ S |-> f[x]]
Put(f, k, v) == [x \in (DOMAIN f) \cup {k} |-> IF x = k THEN v ELSE f[x]]

\* a new call takes the first free slot (the slots are interchangeable)
FirstFree(c) == co[c].pc = "idle" /\ (c = "c2" => co["c1"].pc # "idle")

\* pairing[T] is "paired" when T's rows and T's timestamp were written by the
\* same refresh (or T has neither), and "torn" otherwise.

---------------------------------------------------------------------------
(* GoogleSheetsManager *)

\* Mutant: the comparison with the duration is reversed
_is_cache_valid_reversed(T) ==
    IF T \notin DOMAIN _cache_timestamps
    THEN FALSE
    ELSE (now - _cache_timestamps[T]) > _cache_duration

\* Mutant: an entry is still valid at the exact end of its window
_is_cache_valid_inclusive(T) ==
    IF T \notin DOMAIN _cache_timestamps
    THEN FALSE
    ELSE (now - _cache_timestamps[T]) <= _cache_duration

\* _is_cache_valid(sheet_name)
_is_cache_valid(T) ==
    IF T \notin DOMAIN _cache_timestamps
    THEN FALSE
    ELSE (now - _cache_timestamps[T]) < _cache_duration

\* self._cache.get(sheet_name, [])
cache_get(T) == IF T \in DOMAIN _cache THEN _cache[T] ELSE <<>>

\* now - fetch_timestamp(T), NoAge when T has no timestamp
Age(T) == IF T \in DOMAIN _cache_timestamps THEN now - _cache_timestamps[T] ELSE NoAge

\* Mutant: on an HTTP error the rows cached for the table are returned
_fetch_sheet_data_stale(T, outcome) ==
    IF ~service \/ ~sheets_id THEN [rows |-> <<>>, raised |-> FALSE]
    ELSE CASE outcome = "ok"         -> [rows |-> Rows(T, sheet[T]), raised |-> FALSE]
           [] outcome = "no_rows"    -> [rows |-> <<>>, raised |-> FALSE]
           [] outcome = "http_error" -> [rows |-> cache_get(T), raised |-> FALSE]
           [] outcome = "exception"  -> [rows |-> <<>>, raised |-> FALSE]

\* _fetch_sheet_data(sheet_name) under the given behaviour of the remote
\* source: the rows returned, and whether an exception leaves the function.
_fetch_sheet_data(T, outcome) ==
    IF ~service \/ ~sheets_id THEN [rows |-> <<>>, raised |-> FALSE]
    ELSE CASE outcome = "ok"         -> [rows |-> Rows(T, sheet[T]), raised |-> FALSE]
           [] outcome = "no_rows"    -> [rows |-> <<>>, raised |-> FALSE]
           [] outcome = "http_error" -> [rows |-> <<>>, raised |-> FALSE]
           [] outcome = "exception"  -> [rows |-> <<>>, raised |-> FALSE]

\* the remote fetch failed: no service, no spreadsheet id, an error, or no rows
FetchFailed(outcome) == ~service \/ ~sheets_id \/ outcome # "ok"

Holding(c) == [op |-> "get", c |-> c, arg |-> co[c].table]

\* get_sheet_data / get_sheet_data_sync, cache valid: return the cached rows
GetHit(c, T, form) ==
    /\ FirstFree(c)
    /\ loop = LoopFree
    /\ _is_cache_valid(T)
    /\ lastGet' = [kind |-> "hit", table |-> T, form |-> form, rows |-> cache_get(T),
                   failed |-> FALSE, calls |-> 0, age |-> Age(T),
                   afterInv |-> invalidated[T]]
    /\ invalidated' = [invalidated EXCEPT ![T] = FALSE]
    /\ UNCHANGED <<now, config, sheet, entries, co, loop, pairing, prev>>

\* the call of a get whose cache entry is not valid starts a refresh
StartRefresh(c, T, form, pc) ==
    /\ FirstFree(c)
    /\ loop = LoopFree
    /\ ~_is_cache_valid(T)
    /\ co' = [co EXCEPT ![c] = [pc |-> pc, form |-> form, table |-> T,
                                rows |-> <<>>, failed |-> FALSE, raised |-> FALSE,
                                calls |-> 0]]
    /\ invalidated' = [invalidated EXCEPT ![T] = FALSE]
    /\ lastGet' = [kind |-> "miss", table |-> T, form |-> form, rows |-> <<>>,
                   failed |-> FALSE, calls |-> 0, age |-> Age(T),
                   afterInv |-> invalidated[T]]
    /\ UNCHANGED <<now, config, sheet, entries, pairing, prev>>

\* Mutant: _fetch_sheet_data is called in the coroutine, which keeps the loop
get_sheet_data_inline(c, T) ==
    /\ StartRefresh(c, T, "async", "inflight")
    /\ loop' = [op |-> "get", c |-> c, arg |-> T]

\* get_sheet_data, cache not valid: hand _fetch_sheet_data to the executor and await it
get_sheet_data(c, T) ==
    /\ StartRefresh(c, T, "async", "inflight")
    /\ UNCHANGED loop

\* get_sheet_data_sync, cache not valid: call _fetch_sheet_data on the calling
\* thread, which is the loop's thread (PaymentsHandler.get_urgent_payments is
\* called from a coroutine).  An interactive request that uses this form is the
\* only request in progress.
get_sheet_data_sync(c, T) ==
    /\ StartRefresh(c, T, "sync", "blocked")
    /\ loop' = [op |-> "get", c |-> c, arg |-> T]

\* the executor's worker thread runs _fetch_sheet_data
WorkerFetch(c, outcome) ==
    /\ co[c].pc = "inflight"
    /\ LET r == _fetch_sheet_data(co[c].table, outcome) IN
       co' = [co EXCEPT ![c].pc = "resume",
                        ![c].rows = r.rows,
                        ![c].raised = r.raised,
                        ![c].failed = FetchFailed(outcome),
                        ![c].calls = @ + 1]
    /\ lastGet' = NoGet
    /\ UNCHANGED <<now, config, sheet, entries, loop, pairing, prev, invalidated>>

\* what a get that ends at caller c returns to its caller
Returned(c, rows, failed) ==
    [kind |-> "return", table |-> co[c].table, form |-> co[c].form, rows |-> rows,
     failed |-> failed, calls |-> co[c].calls + IF co[c].pc = "blocked" THEN 1 ELSE 0,
     age |-> NoAge, afterInv |-> FALSE]

\* Mutant: the result of a failed fetch is returned and not stored
_update_cache_skip_failed(c, r, failed) ==
    /\ IF r.raised \/ failed
       THEN /\ lastGet' = Returned(c, <<>>, failed)
            /\ UNCHANGED <<entries, pairing, prev>>
       ELSE /\ _cache' = Put(_cache, co[c].table, r.rows)
            /\ _cache_timestamps' = Put(_cache_timestamps, co[c].table, now)
            /\ pairing' = [pairing EXCEPT ![co[c].table] = "paired"]
            /\ prev' = [prev EXCEPT ![co[c].table] =
                          IF _is_cache_valid(co[c].table)
                             /\ cache_get(co[c].table) # r.rows
                          THEN [at |-> _cache_timestamps[co[c].table],
                                rows |-> cache_get(co[c].table)]
                          ELSE NoStore]
            /\ lastGet' = Returned(c, r.rows, failed)
    /\ co' = [co EXCEPT ![c] = IdleCo]
    /\ loop' = LoopFree
    /\ UNCHANGED <<now, config, sheet, invalidated>>

\* Mutant: the timestamp of an entry that exists is kept (only the rows are replaced)
_update_cache_keep_stamp(c, r, failed) ==
    /\ _cache' = Put(_cache, co[c].table, r.rows)
    /\ _cache_timestamps' = IF co[c].table \in DOMAIN _cache_timestamps
                            THEN _cache_timestamps
                            ELSE Put(_cache_timestamps, co[c].table, now)
    /\ pairing' = [pairing EXCEPT ![co[c].table] =
                      IF co[c].table \in DOMAIN _cache_timestamps THEN "torn" ELSE "paired"]
    /\ prev' = [prev EXCEPT ![co[c].table] = NoStore]
    /\ lastGet' = Returned(c, r.rows, failed)
    /\ co' = [co EXCEPT ![c] = IdleCo]
    /\ loop' = LoopFree
    /\ UNCHANGED <<now, config, sheet, invalidated>>

\* the rest of a get after _fetch_sheet_data has returned r.
\* An exception of the fetch is caught: log, return [].  Otherwise
\* _update_cache(sheet_name, data), then return data.  The two assignments of
\* _update_cache run on the loop's thread with no await between them, and the
\* worker thread touches neither dictionary: they are one step.
_update_cache(c, r, failed) ==
    /\ IF r.raised
       THEN /\ lastGet' = Returned(c, <<>>, failed)
            /\ UNCHANGED <<entries, pairing, prev>>
       ELSE /\ _cache' = Put(_cache, co[c].table, r.rows)
            /\ _cache_timestamps' = Put(_cache_timestamps, co[c].table, now)
            /\ pairing' = [pairing EXCEPT ![co[c].table] = "paired"]
            /\ prev' = [prev EXCEPT ![co[c].table] =
                          IF _is_cache_valid(co[c].table)
                             /\ cache_get(co[c].table) # r.rows
                          THEN [at |-> _cache_timestamps[co[c].table],
                                rows |-> cache_get(co[c].table)]
                          ELSE NoStore]
            /\ lastGet' = Returned(c, r.rows, failed)
    /\ co' = [co EXCEPT ![c] = IdleCo]
    /\ loop' = LoopFree
    /\ UNCHANGED <<now, config, sheet, invalidated>>

\* get_sheet_data: the loop runs the coroutine again once the worker is done
Resume(c) ==
    /\ co[c].pc = "resume"
    /\ loop = LoopFree
    /\ _update_cache(c, [rows |-> co[c].rows, raised |-> co[c].raised], co[c].failed)

\* get_sheet_data_sync: the blocking _fetch_sheet_data returns and the get goes on
SyncFetch(c, outcome) ==
    /\ co[c].pc = "blocked"
    /\ loop = Holding(c)
    /\ _update_cache(c, _fetch_sheet_data(co[c].table, outcome), FetchFailed(outcome))

Cleared(arg) == IF arg = "None" THEN Tables ELSE {arg}

\* Mutant: only the rows are removed, the timestamps stay
clear_cache_rows_only(arg) ==
    /\ loop = LoopFree
    /\ _cache' = Drop(_cache, Cleared(arg))
    /\ pairing' = [T \in Tables |-> IF T \in Cleared(arg) THEN "paired" ELSE pairing[T]]
    /\ prev' = [T \in Tables |-> IF T \in Cleared(arg) THEN NoStore ELSE prev[T]]
    /\ invalidated' = [T \in Tables |-> (T \in Cleared(arg)) \/ invalidated[T]]
    /\ lastGet' = NoGet
    /\ UNCHANGED <<now, config, sheet, _cache_timestamps, co, loop>>

\* Mutant: the argument is ignored and both dictionaries are cleared
clear_cache_all(arg) ==
    /\ loop = LoopFree
    /\ _cache' = << >>
    /\ _cache_timestamps' = << >>
    /\ pairing' = [T \in Tables |-> "paired"]
    /\ prev' = [T \in Tables |-> NoStore]
    /\ invalidated' = [T \in Tables |-> TRUE]
    /\ lastGet' = NoGet
    /\ UNCHANGED <<now, config, sheet, co, loop>>

\* clear_cache(sheet_name): pop (or clear) both dictionaries, in one step of the loop
clear_cache(arg) ==
    /\ loop = LoopFree
    /\ _cache' = Drop(_cache, Cleared(arg))
    /\ _cache_timestamps' = Drop(_cache_timestamps, Cleared(arg))
    /\ pairing' = [T \in Tables |-> IF T \in Cleared(arg) THEN "paired" ELSE pairing[T]]
    /\ prev' = [T \in Tables |-> IF T \in Cleared(arg) THEN NoStore ELSE prev[T]]
    /\ invalidated' = [T \in Tables |-> (T \in Cleared(arg)) \/ invalidated[T]]
    /\ lastGet' = NoGet
    /\ UNCHANGED <<now, config, sheet, co, loop>>

---------------------------------------------------------------------------
(* Scheduler: the jobs and their cron triggers *)

\* Bounds of the scheduler model
NumAdmins == 1
MaxLate == 2
HorizonHours == 7
CoopMinutes == 6
MaxRequests == 3

Minute == 60
Hour == 60 * Minute
Day == 24 * Hour
Week == 7 * Day

\* now = 0 is a Monday, 00:00:00
Mon == 0
Sun == 6
Days == 0 .. 6

Jobs == {"daily_payment_reminder", "weekly_events_reminder",
         "clear_cache_job", "health_check"}

\* The times of a week, as seconds since Monday 00:00:00, at which the
\* CronTrigger of _setup_jobs fires.  Fields below the least significant one
\* given take their minimum (minute 0, second 0 for hour='*/6').
FireTimesInWeek(j) ==
    CASE j = "daily_payment_reminder"  -> {d * Day + 9 * Hour + 5 * Minute : d \in Days}
      [] j = "weekly_events_reminder"  -> {Mon * Day + 9 * Hour + 6 * Minute}
      [] j = "clear_cache_job"         -> {Sun * Day + 2 * Hour + 0 * Minute}
      [] j = "health_check"            -> {d * Day + h * Hour : d \in Days,
                                                                  h \in {x \in 0 .. 23 : x % 6 = 0}}

\* the fire times of job j in the week of t, the week before and the week after
FireTimesAround(j, t) ==
    {(t \div Week + w) * Week + o : w \in {0 - 1, 0, 1}, o \in FireTimesInWeek(j)}

Least(S) == CHOOSE x \in S : \A y \in S : x <= y
Greatest(S) == CHOOSE x \in S : \A y \in S : x >= y

\* Mutant: the fire time that is due now is given again as the next one
NextFire_inclusive(j, t) == Least({f \in FireTimesAround(j, t) : f >= t})

\* trigger.get_next_fire_time(run_time, now) after the latest due run time: the
\* first fire time of the trigger after t
NextFire(j, t) == Least({f \in FireTimesAround(j, t) : f > t})

\* trigger.get_next_fire_time(None, now) when the job is added: the first fire
\* time of the trigger at or after t
FirstFire(j, t) == Least({f \in FireTimesAround(j, t) : f >= t})

\* the latest fire time of the trigger at or before t (the one run time left
\* of the due ones: jobs are added with the default coalesce)
PrevFire(j, t) == Greatest({f \in FireTimesAround(j, t) : f >= 0 /\ f <= t})

\* default of add_job: seconds after its run time that a run may still begin
misfire_grace_time == 1

\* Scheduler.admin_user_ids, parsed from ADMIN_USER_IDS
admin_user_ids == [i \in 1 .. NumAdmins |-> i]

\* scheduler.start() is called on a Monday at 05:00 and the bot is followed
\* for HorizonHours (SchedSpec), or at 09:00 and followed for CoopMinutes (CoopSpec)
StartTime == Mon * Day + 5 * Hour
Horizon == StartTime + HorizonHours * Hour
CoopStartTime == Mon * Day + 9 * Hour
CoopHorizon == CoopStartTime + CoopMinutes * Minute

NoJob == [pc |-> "none", run_time |-> NoAge, began |-> NoAge, sent |-> 0, failed |-> FALSE]
NoRun == [kind |-> "none", job |-> "-", run_time |-> NoAge, at |-> NoAge, before |-> NoAge]
NoFailure == [job |-> "-", from |-> NoAge, to |-> NoAge]
\* done: the kinds of work that began and ended since the fetch of caller c1
\* went in flight; fired: the jobs fired since; got: caller c2 began, since, a
\* non-blocking get of another table
NoOverlap == [done |-> {}, fired |-> {}, got |-> FALSE]

\* The AsyncIOScheduler.  state: "running" after scheduler.start(), "stopped"
\* after scheduler.shutdown(); store: the ids in its job store, in the order
\* they were added; raised: the last start() or stop() raised to its caller;
\* refused: the last start() met a job id that was already in the store;
\* cut: the jobs whose handler was running when shutdown() cancelled it.
Running == [state |-> "running",
            store |-> <<"daily_payment_reminder", "weekly_events_reminder",
                        "clear_cache_job", "health_check">>,
            raised |-> FALSE, refused |-> FALSE, cut |-> {}]
NoCall == [op |-> "none"]

\* the remote fetch of caller c1's non-blocking get is with the worker
Flying == co["c1"].pc = "inflight"

---------------------------------------------------------------------------
(* Scheduler: firing and running the jobs on the event loop *)

\* Scheduler.set_payments_handler(payments_handler)
set_payments_handler ==
    /\ loop = LoopFree
    /\ ~payments_handler
    /\ payments_handler' = TRUE
    /\ lastGet' = NoGet
    /\ UNCHANGED <<now, config, sheet, entries, co, loop, pairing, prev, invalidated,
                   life, call, bot, next_run_time, job, history, requests>>

\* The scheduler's timer callback finds job j due: it submits one run for the
\* latest due run time (unless a run of j is still in progress: max_instances
\* is 1) and sets the next fire time of j.
Fire(j) ==
    /\ loop = LoopFree
    /\ life.state = "running"
    /\ next_run_time[j] <= now
    /\ next_run_time' = [next_run_time EXCEPT ![j] = NextFire(j, PrevFire(j, now))]
    /\ IF job[j].pc = "none"
       THEN /\ job' = [job EXCEPT ![j] = [NoJob EXCEPT !.pc = "submitted",
                                                       !.run_time = PrevFire(j, now)]]
            /\ overlap' = IF Flying THEN [overlap EXCEPT !.fired = @ \cup {j}] ELSE overlap
       ELSE UNCHANGED <<job, overlap>>
    /\ lastGet' = NoGet
    /\ UNCHANGED <<now, config, sheet, entries, co, loop, pairing, prev, invalidated,
                   life, call, bot, payments_handler, ran, last_run, lastFailure, requests>>

\* the handler of job j, begun at time began, returns; failed: a remote fetch, a
\* send or a call of the handler failed (every one is caught in the handler)
Ended(j, began, failed) ==
    /\ job' = [job EXCEPT ![j] = NoJob]
    /\ last_run' = [last_run EXCEPT ![j] = began]
    /\ lastFailure' = IF failed THEN [job |-> j, from |-> began, to |-> now]
                      ELSE lastFailure
    /\ overlap' = IF Flying /\ j \in overlap.fired
                  THEN [overlap EXCEPT !.done = @ \cup {"job"}]
                  ELSE overlap

\* the handler of job j waits (at an await, or inside a blocking call)
Suspended(j, pc, began) ==
    /\ job' = [job EXCEPT ![j].pc = pc, ![j].began = began]
    /\ last_run' = [last_run EXCEPT ![j] = began]
    /\ UNCHANGED <<lastFailure, overlap>>

\* _daily_payment_reminder from the return of get_urgent_payments on: nothing
\* urgent (no rows, or no payment within 7 days): return; otherwise build the
\* message and send it to the administrators
AfterRows(j, rows, began, fetchFailed) ==
    IF rows = <<>>
    THEN Ended(j, began, fetchFailed)
    ELSE \E urgent \in BOOLEAN :
            IF urgent /\ Len(admin_user_ids) > 0
            THEN Suspended(j, "sending", began)
            ELSE Ended(j, began, FALSE)

\* _daily_payment_reminder up to its first wait
_daily_payment_reminder(j) ==
    IF ~payments_handler \/ ~bot
    THEN /\ Ended(j, now, FALSE)
         /\ lastGet' = NoGet
         /\ UNCHANGED <<now, config, sheet, entries, co, loop, pairing, prev, invalidated>>
    ELSE IF _is_cache_valid("pagos")
         THEN /\ GetHit("job", "pagos", "sync")
              /\ AfterRows(j, cache_get("pagos"), now, FALSE)
         ELSE /\ get_sheet_data_sync("job", "pagos")
              /\ Suspended(j, "fetching", now)

\* _weekly_events_reminder up to its first await
_weekly_events_reminder(j) ==
    /\ IF bot /\ Len(admin_user_ids) > 0
       THEN Suspended(j, "sending", now)
       ELSE Ended(j, now, FALSE)
    /\ lastGet' = NoGet
    /\ UNCHANGED <<now, config, sheet, entries, co, loop, pairing, prev, invalidated>>

\* _clear_cache_job: writes a log line
_clear_cache_job(j) ==
    /\ Ended(j, now, FALSE)
    /\ lastGet' = NoGet
    /\ UNCHANGED <<now, config, sheet, entries, co, loop, pairing, prev, invalidated>>

\* _health_check up to its await of bot.get_me()
_health_check(j) ==
    /\ IF bot THEN Suspended(j, "awaiting", now) ELSE Ended(j, now, FALSE)
    /\ lastGet' = NoGet
    /\ UNCHANGED <<now, config, sheet, entries, co, loop, pairing, prev, invalidated>>

\* The loop runs the task of a submitted run.  A run more than
\* misfire_grace_time late is dropped as missed; otherwise the handler runs
\* up to its first wait.
StartJob(j) ==
    /\ loop = LoopFree
    /\ job[j].pc = "submitted"
    /\ IF now - job[j].run_time > misfire_grace_time
       THEN /\ ran' = [kind |-> "missed", job |-> j, run_time |-> job[j].run_time,
                       at |-> now, before |-> last_run[j]]
            /\ job' = [job EXCEPT ![j] = NoJob]
            /\ lastGet' = NoGet
            /\ UNCHANGED <<now, config, sheet, entries, co, loop, pairing, prev,
                           invalidated, last_run, lastFailure, overlap>>
       ELSE /\ ran' = [kind |-> "started", job |-> j, run_time |-> job[j].run_time,
                       at |-> now, before |-> last_run[j]]
            /\ CASE j = "daily_payment_reminder" -> _daily_payment_reminder(j)
                 [] j = "weekly_events_reminder" -> _weekly_events_reminder(j)
                 [] j = "clear_cache_job"        -> _clear_cache_job(j)
                 [] j = "health_check"           -> _health_check(j)
    /\ UNCHANGED <<life, call, bot, payments_handler, next_run_time, requests>>

\* _daily_payment_reminder: the blocking fetch of get_urgent_payments returns
JobFetched(j, outcome) ==
    /\ job[j].pc = "fetching"
    /\ SyncFetch("job", outcome)
    /\ AfterRows(j, _fetch_sheet_data("pagos", outcome).rows, job[j].began,
                 FetchFailed(outcome))
    /\ UNCHANGED <<life, call, bot, payments_handler, next_run_time, ran, requests>>

\* one bot.send_message of a reminder returns or raises (caught, logged, and the
\* loop over the administrators goes on)
Send(j, ok) ==
    /\ loop = LoopFree
    /\ job[j].pc = "sending"
    /\ IF job[j].sent + 1 = Len(admin_user_ids)
       THEN Ended(j, job[j].began, job[j].failed \/ ~ok)
       ELSE /\ job' = [job EXCEPT ![j].sent = @ + 1, ![j].failed = @ \/ ~ok]
            /\ UNCHANGED <<last_run, lastFailure, overlap>>
    /\ lastGet' = NoGet
    /\ UNCHANGED <<now, config, sheet, entries, co, loop, pairing, prev, invalidated,
                   life, call, bot, payments_handler, next_run_time, ran, requests>>

\* _health_check: bot.get_me() returns or raises (caught and logged)
GetMe(j, ok) ==
    /\ loop = LoopFree
    /\ job[j].pc = "awaiting"
    /\ Ended(j, job[j].began, ~ok)
    /\ lastGet' = NoGet
    /\ UNCHANGED <<now, config, sheet, entries, co, loop, pairing, prev, invalidated,
                   life, call, bot, payments_handler, next_run_time, ran, requests>>

---------------------------------------------------------------------------
(* Scheduler: start(), stop() and get_job_status() *)

\* the ids of the jobs, in the order _setup_jobs adds them
JobIds == <<"daily_payment_reminder", "weekly_events_reminder",
            "clear_cache_job", "health_check">>

\* the name given to each job by _setup_jobs
JobName(j) ==
    CASE j = "daily_payment_reminder" -> "Recordatorio diario de pagos"
      [] j = "weekly_events_reminder" -> "Recordatorio semanal de eventos"
      [] j = "clear_cache_job"        -> "Limpieza de caché semanal"
      [] j = "health_check"           -> "Verificación de salud del bot"

Range(q) == {q[i] : i \in DOMAIN q}

\* scheduler.add_job(..., id=id) on a running scheduler: the job store refuses
\* an id it already holds (the error leaves add_job); r.error: an earlier
\* add_job of the same _setup_jobs has raised, and this one is not reached
add_job(r, id) ==
    IF r.error THEN r
    ELSE IF id \in Range(r.store) THEN [r EXCEPT !.error = TRUE]
         ELSE [r EXCEPT !.store = Append(@, id)]

\* _setup_jobs on a running scheduler with the given job store
_setup_jobs(store) ==
    add_job(add_job(add_job(add_job([store |-> store, error |-> FALSE],
                                    JobIds[1]), JobIds[2]), JobIds[3]), JobIds[4])

\* Scheduler.start().  On a running scheduler the first add_job of _setup_jobs
\* raises; on a scheduler that is not running the jobs are kept pending and
\* scheduler.start() adds them to the (empty) job store with their first fire
\* time after now.  Every exception is caught and logged (lines 54-55).
start ==
    /\ loop = LoopFree
    /\ IF life.state = "running"
       THEN /\ life' = [life EXCEPT !.store = _setup_jobs(life.store).store,
                                    !.refused = _setup_jobs(life.store).error,
                                    !.raised = FALSE]
            /\ UNCHANGED next_run_time
       ELSE /\ life' = [life EXCEPT !.state = "running",
                                    !.store = _setup_jobs(<< >>).store,
                                    !.refused = FALSE,
                                    !.raised = FALSE]
            /\ next_run_time' = [j \in Jobs |-> NextFire(j, now)]
    /\ lastGet' = NoGet
    /\ UNCHANGED <<now, config, sheet, entries, co, loop, pairing, prev, invalidated,
                   call, bot, payments_handler, job, history, requests>>

\* the handler of job j is between its begin and its return
InHandler(j) == job[j].pc \in {"fetching", "sending", "awaiting"}

\* Scheduler.stop(): scheduler.shutdown().  The timer is stopped, the job store
\* is emptied, and the executor cancels the task of every run that has not
\* ended: a run that has not begun never begins, and a handler that waits at an
\* await is ended there by CancelledError, which no `except Exception` of the
\* handler catches.  On a scheduler that is not running shutdown() raises,
\* which is caught and logged (lines 62-63).
stop ==
    /\ loop = LoopFree
    /\ IF life.state = "running"
       THEN /\ life' = [life EXCEPT !.state = "stopped",
                                    !.store = << >>,
                                    !.refused = FALSE,
                                    !.raised = FALSE,
                                    !.cut = @ \cup {j \in Jobs : InHandler(j)}]
            /\ job' = [j \in Jobs |-> NoJob]
       ELSE /\ life' = [life EXCEPT !.refused = FALSE, !.raised = FALSE]
            /\ UNCHANGED job
    /\ lastGet' = NoGet
    /\ UNCHANGED <<now, config, sheet, entries, co, loop, pairing, prev, invalidated,
                   call, bot, payments_handler, next_run_time, history, requests>>

\* Mutant: only the first job of the store is listed
get_jobs_first == IF life.state = "running" THEN SubSeq(life.store, 1, 1) ELSE << >>

\* scheduler.get_jobs(): the jobs of the store (none once it is shut down)
get_jobs == IF life.state = "running" THEN life.store ELSE << >>

\* job.next_run_time (None: no further run)
None == NoAge

\* Scheduler.get_job_status(): one entry per job id, the later of two jobs
\* with one id replacing the earlier
get_job_status ==
    [j \in Range(get_jobs) |->
        [name |-> JobName(j),
         next_run |-> next_run_time[j],
         active |-> next_run_time[j] # None]]

\* a caller asks for the status; what it got is kept together with the job
\* store and the next fire times of that moment
AskStatus ==
    /\ loop = LoopFree
    /\ call' = [op |-> "get_job_status", result |-> get_job_status,
                state |-> life.state, store |-> life.store, next |-> next_run_time]
    /\ lastGet' = NoGet
    /\ UNCHANGED <<now, config, sheet, entries, co, loop, pairing, prev, invalidated,
                   life, bot, payments_handler, next_run_time, job, history, requests>>

---------------------------------------------------------------------------
(* PaymentsHandler.get_urgent_payments *)

\* the most rows of the 'pagos' table
MaxRows == 2

\* the year of the dates followed; its 1 January is a Monday, time 0
Year == 2024

\* the days of each month of Year
DaysIn(m) ==
    CASE m \in {1, 3, 5, 7, 8, 10, 12} -> 31
      [] m \in {4, 6, 9, 11} -> 30
      [] m = 2 -> 29

RECURSIVE DaysBefore(_)
\* the days of Year before month m
DaysBefore(m) == IF m = 1 THEN 0 ELSE DaysIn(m - 1) + DaysBefore(m - 1)

\* a cell of the column 'fecha': three numbers written with a separator
\* between them ("2024-02-27" is Text("-", 2024, 2, 27)); "" has none
Text(sep, f1, f2, f3) == [sep |-> sep, f1 |-> f1, f2 |-> f2, f3 |-> f3]

EmptyText == Text("", 0, 0, 0)

\* datetime.strptime(text, '%Y-%m-%d') for the dates of Year: the midnight of
\* the date, or ValueError (ok = FALSE)
strptime(text) ==
    IF /\ text.sep = "-"
       /\ text.f1 = Year
       /\ text.f2 \in 1..12
       /\ text.f3 \in 1..DaysIn(text.f2)
    THEN [ok |-> TRUE, date |-> (DaysBefore(text.f2) + text.f3 - 1) * Day]
    ELSE [ok |-> FALSE, date |-> NoAge]

\* payment.get('fecha', '')
GetFecha(payment) == IF "fecha" \in DOMAIN payment THEN payment.fecha ELSE EmptyText

\* timedelta.days: whole days, rounded down
days(delta) == delta \div Day

\* Mutant: an unparseable date ends the whole query with []
RECURSIVE get_urgent_payments_abort(_, _)
get_urgent_payments_abort(payments_data, current_date) ==
    IF \E i \in DOMAIN payments_data : ~strptime(GetFecha(payments_data[i])).ok
    THEN << >>
    ELSE IF payments_data = << >> THEN << >>
    ELSE LET payment == Head(payments_data)
             payment_date == strptime(GetFecha(payment)).date
             days_until == days(payment_date - current_date)
             rest == get_urgent_payments_abort(Tail(payments_data), current_date)
         IN  IF 0 <= days_until /\ days_until <= 7
             THEN << [fecha |-> payment_date, concepto |-> payment.concepto,
                      dias_restantes |-> days_until] >> \o rest
             ELSE rest

RECURSIVE get_urgent_payments(_, _)
\* PaymentsHandler.get_urgent_payments() on the rows get_sheet_data_sync('pagos')
\* returned, with datetime.now() = current_date
get_urgent_payments(payments_data, current_date) ==
    IF payments_data = << >> THEN << >>
    ELSE LET payment == Head(payments_data)
             parsed == strptime(GetFecha(payment))
             days_until == days(parsed.date - current_date)
             rest == get_urgent_payments(Tail(payments_data), current_date)
         IN  IF parsed.ok /\ 0 <= days_until /\ days_until <= 7
             THEN << [fecha |-> parsed.date, concepto |-> payment.concepto,
                      dias_restantes |-> days_until] >> \o rest
             ELSE rest

\* today: Tuesday 27 February of Year
Today == (DaysBefore(2) + 27 - 1) * Day

\* the times of day at which the query is made
TimesOfDay == {0, 9 * Hour + 5 * Minute, Day - 1}

\* cells of the column 'fecha': yesterday, today, today + 3, + 7, + 8, + 10,
\* a day the month does not have, another format, and the empty cell
Fechas ==
    {Text("-", Year, 2, 26), Text("-", Year, 2, 27), Text("-", Year, 3, 1),
     Text("-", Year, 3, 5), Text("-", Year, 3, 6), Text("-", Year, 3, 8),
     Text("-", Year, 2, 30), Text("/", 27, 2, Year), EmptyText}

\* rows of the table: with a 'fecha' cell, or without the column
Payments ==
    {[fecha |-> f, concepto |-> "luz"] : f \in Fechas} \cup {[concepto |-> "luz"]}

PaymentTables == UNION {[1..n -> Payments] : n \in 0..MaxRows}

\* the query is made and returns
AskUrgent ==
    /\ call.op = "get_urgent_payments"
    /\ ~call.done
    /\ call' = [call EXCEPT !.done = TRUE,
                            !.result = get_urgent_payments(call.rows, now)]
    /\ UNCHANGED <<now, config, sheet, entries, co, loop, lastGet, pairing, prev,
                   invalidated, life, bot, payments_handler, next_run_time, job,
                   history, requests>>

---------------------------------------------------------------------------
(* Scheduler.send_urgent_notification *)

\* the most recipients passed as user_ids
MaxRecipients == 3

\* chat ids passed as user_ids
UserIds == {7, 8}

\* the user_ids argument: omitted (None), or a list
UserIdLists ==
    {[given |-> FALSE, ids |-> << >>]} \cup
    {[given |-> TRUE, ids |-> l] : l \in UNION {[1..n -> UserIds] : n \in 0..MaxRecipients}}

\* user_ids if user_ids else self.admin_user_ids
target_users(user_ids) ==
    IF user_ids.given /\ user_ids.ids # << >> THEN user_ids.ids ELSE admin_user_ids

\* send_urgent_notification up to its first await
NotifyBegin ==
    /\ loop = LoopFree
    /\ call.op = "send_urgent_notification"
    /\ call.pc = "called"
    /\ call' = IF ~bot THEN [call EXCEPT !.pc = "returned"]
               ELSE [call EXCEPT !.target = target_users(call.user_ids),
                                 !.pc = IF target_users(call.user_ids) = << >>
                                        THEN "returned" ELSE "sending"]
    /\ UNCHANGED <<now, config, sheet, entries, co, loop, lastGet, pairing, prev,
                   invalidated, life, bot, payments_handler, next_run_time, job,
                   history, requests>>

\* Mutant: a send that raises ends the notification with the exception
NotifySend_abort(ok) ==
    /\ loop = LoopFree
    /\ call.op = "send_urgent_notification"
    /\ call.pc = "sending"
    /\ LET user_id == call.target[Len(call.attempts) + 1]
       IN  call' = [call EXCEPT
                      !.attempts = Append(@, [chat_id |-> user_id, ok |-> ok]),
                      !.pc = IF ~ok THEN "raised"
                             ELSE IF Len(call.attempts) + 1 = Len(call.target)
                                  THEN "returned" ELSE "sending"]
    /\ UNCHANGED <<now, config, sheet, entries, co, loop, lastGet, pairing, prev,
                   invalidated, life, bot, payments_handler, next_run_time, job,
                   history, requests>>

\* await self.bot.send_message(chat_id=user_id, ...) returns (ok) or raises,
\* which is caught and logged for that user; after the last user the
\* notification returns
NotifySend(ok) ==
    /\ loop = LoopFree
    /\ call.op = "send_urgent_notification"
    /\ call.pc = "sending"
    /\ LET user_id == call.target[Len(call.attempts) + 1]
       IN  call' = [call EXCEPT
                      !.attempts = Append(@, [chat_id |-> user_id, ok |-> ok]),
                      !.logged = IF ok THEN @ ELSE Append(@, user_id),
                      !.pc = IF Len(call.attempts) + 1 = Len(call.target)
                             THEN "returned" ELSE "sending"]
    /\ UNCHANGED <<now, config, sheet, entries, co, loop, lastGet, pairing, prev,
                   invalidated, life, bot, payments_handler, next_run_time, job,
                   history, requests>>

---------------------------------------------------------------------------
(* Strings: a str is the sequence of its characters *)

\* the line break
NL == "\n"

\* the characters str.strip() removes
Whitespace == {" ", NL}

RECURSIVE lstrip(_)
lstrip(s) == IF s # << >> /\ Head(s) \in Whitespace THEN lstrip(Tail(s)) ELSE s

RECURSIVE rstrip(_)
rstrip(s) ==
    IF s # << >> /\ s[Len(s)] \in Whitespace THEN rstrip(SubSeq(s, 1, Len(s) - 1)) ELSE s

\* str.strip()
strip(s) == rstrip(lstrip(s))

RECURSIVE split(_, _)
\* str.split(sep) for a separator of one character
split(s, sep) ==
    IF \A i \in DOMAIN s : s[i] # sep THEN << s >>
    ELSE LET i == CHOOSE k \in DOMAIN s :
                      s[k] = sep /\ \A m \in 1..(k - 1) : s[m] # sep
         IN  << SubSeq(s, 1, i - 1) >> \o split(SubSeq(s, i + 1, Len(s)), sep)

\* the decimal digits that occur in the ids followed
Digits == {"1", "2"}

DigitValue(c) == IF c = "1" THEN 1 ELSE 2

RECURSIVE DecimalValue(_)
DecimalValue(s) ==
    IF s = << >> THEN 0 ELSE 10 * DecimalValue(SubSeq(s, 1, Len(s) - 1)) + DigitValue(s[Len(s)])

\* int(s): the number written in s (blanks around it ignored), or ValueError
int(s) ==
    IF strip(s) # << >> /\ \A i \in DOMAIN strip(s) : strip(s)[i] \in Digits
    THEN [ok |-> TRUE, value |-> DecimalValue(strip(s))]
    ELSE [ok |-> FALSE, value |-> 0]

---------------------------------------------------------------------------
(* Scheduler._parse_admin_ids *)

\* the most characters of ADMIN_USER_IDS
MaxIdChars == 4

\* the characters of ADMIN_USER_IDS
IdChars == {"1", "2", ",", " ", "x"}

AdminIdStrings == UNION {[1..n -> IdChars] : n \in 0..MaxIdChars}

\* [... for uid in admin_ids_str.split(',') if uid.strip()]
NonBlank(uid) == strip(uid) # << >>

\* Scheduler._parse_admin_ids() with ADMIN_USER_IDS = admin_ids_str: one entry
\* that is no integer makes the comprehension raise ValueError, and the
\* result is []
_parse_admin_ids(admin_ids_str) ==
    LET uids == SelectSeq(split(admin_ids_str, ","), NonBlank)
    IN  IF admin_ids_str = << >> THEN << >>
        ELSE IF \E i \in DOMAIN uids : ~int(uids[i]).ok THEN << >>
        ELSE [i \in DOMAIN uids |-> int(uids[i]).value]

\* Scheduler.__init__ parses the variable
AskParse ==
    /\ call.op = "_parse_admin_ids"
    /\ ~call.done
    /\ call' = [call EXCEPT !.done = TRUE,
                            !.result = _parse_admin_ids(call.admin_ids_str)]
    /\ UNCHANGED <<now, config, sheet, entries, co, loop, lastGet, pairing, prev,
                   invalidated, life, bot, payments_handler, next_run_time, job,
                   history, requests>>

---------------------------------------------------------------------------
(* helpers.split_message *)

\* the most characters of a text, and the greatest max_length
MaxText == 5
MaxLimit == 2

\* the characters of the texts
TextChars == {"a", "b", " ", NL}

Texts == UNION {[1..n -> TextChars] : n \in 0..MaxText}

RECURSIVE HardCut_drop(_, _, _)
\* Mutant: each cut loses the character after it
HardCut_drop(parts, line, max_length) ==
    IF Len(line) > max_length
    THEN HardCut_drop(Append(parts, SubSeq(line, 1, max_length)),
                      SubSeq(line, max_length + 2, Len(line)), max_length)
    ELSE [parts |-> parts, current_part |-> line]

RECURSIVE HardCut(_, _, _)
\* while len(line) > max_length: parts.append(line[:max_length]); line = line[max_length:]
HardCut(parts, line, max_length) ==
    IF Len(line) > max_length
    THEN HardCut(Append(parts, SubSeq(line, 1, max_length)),
                 SubSeq(line, max_length + 1, Len(line)), max_length)
    ELSE [parts |-> parts, current_part |-> line]

\* the body of `for line in lines`
SplitStep(st, line, max_length) ==
    IF Len(st.current_part) + Len(line) + 1 > max_length
    THEN IF st.current_part # << >>
         THEN [parts |-> Append(st.parts, strip(st.current_part)),
               current_part |-> line]
         ELSE HardCut(st.parts, line, max_length)
    ELSE [parts |-> st.parts,
          current_part |-> IF st.current_part # << >>
                           THEN st.current_part \o << NL >> \o line ELSE line]

RECURSIVE SplitLoop(_, _, _)
\* for line in lines
SplitLoop(st, lines, max_length) ==
    IF lines = << >> THEN st
    ELSE SplitLoop(SplitStep(st, Head(lines), max_length), Tail(lines), max_length)

\* split_message(text, max_length)
split_message(text, max_length) ==
    IF text = << >> \/ Len(text) <= max_length THEN << text >>
    ELSE LET st == SplitLoop([parts |-> << >>, current_part |-> << >>],
                             split(text, NL), max_length)
         IN  IF st.current_part # << >>
             THEN Append(st.parts, strip(st.current_part))
             ELSE st.parts

\* a caller splits a text
AskSplit ==
    /\ call.op = "split_message"
    /\ ~call.done
    /\ call' = [call EXCEPT !.done = TRUE,
                            !.result = split_message(call.text, call.max_length)]
    /\ UNCHANGED <<now, config, sheet, entries, co, loop, lastGet, pairing, prev,
                   invalidated, life, bot, payments_handler, next_run_time, job,
                   history, requests>>

---------------------------------------------------------------------------
(* Environment *)

\* the spreadsheet is edited
RemoteEdit(T) ==
    /\ T \in Edited
    /\ sheet[T] = "r1"
    /\ sheet' = [sheet EXCEPT ![T] = "r2"]
    /\ lastGet' = NoGet
    /\ UNCHANGED <<now, config, entries, co, loop, pairing, prev, invalidated>>

\* time passes: while the loop is idle, or while it is blocked in a remote call
Tick ==
    /\ now + TickSeconds <= MaxTime
    /\ \/ loop = LoopFree
       \/ loop.op = "get" /\ co[loop.c].pc = "blocked"
    /\ now' = now + TickSeconds
    /\ lastGet' = NoGet
    /\ prev' = [T \in Tables |->
                   IF now' - prev[T].at < _cache_duration THEN prev[T] ELSE NoStore]
    /\ UNCHANGED <<config, sheet, entries, co, loop, pairing, invalidated>>

---------------------------------------------------------------------------

Init ==
    /\ now = 0
    /\ service \in BOOLEAN
    /\ sheets_id \in BOOLEAN
    /\ sheet = [T \in Tables |-> "r1"]
    /\ _cache = << >>
    /\ _cache_timestamps = << >>
    /\ co = [c \in Slots |-> IdleCo]
    /\ loop = LoopFree
    /\ lastGet = NoGet
    /\ pairing = [T \in Tables |-> "paired"]
    /\ prev = [T \in Tables |-> NoStore]
    /\ invalidated = [T \in Tables |-> FALSE]
    /\ bot = FALSE
    /\ payments_handler = FALSE
    /\ next_run_time = [j \in Jobs |-> NoAge]
    /\ job = [j \in Jobs |-> NoJob]
    /\ ran = NoRun
    /\ last_run = [j \in Jobs |-> NoAge]
    /\ lastFailure = NoFailure
    /\ overlap = NoOverlap
    /\ requests = 0
    /\ life = [Running EXCEPT !.state = "new", !.store = << >>]
    /\ call = NoCall

\* The data layer alone: the scheduler is not started
Next ==
    \/ \E c \in Callers, T \in Tables, form \in Forms :
          GetHit(c, T, form) /\ UNCHANGED sched
    \/ \E c \in Callers, T \in Tables : get_sheet_data(c, T) /\ UNCHANGED sched
    \/ \E c \in Callers, o \in Outcomes : WorkerFetch(c, o) /\ UNCHANGED sched
    \/ \E T \in Tables : get_sheet_data_sync("c1", T) /\ UNCHANGED sched
    \/ \E o \in Outcomes : SyncFetch("c1", o) /\ UNCHANGED sched
    \/ \E c \in Callers : Resume(c) /\ UNCHANGED sched
    \/ \E arg \in TablesOrNone : clear_cache(arg) /\ UNCHANGED sched
    \/ \E T \in Tables : RemoteEdit(T) /\ UNCHANGED sched
    \/ Tick /\ UNCHANGED sched

Spec == Init /\ [][Next]_vars

---------------------------------------------------------------------------
(* The bot: interactive requests and jobs on one event loop *)

\* a command handler calls get_sheet_data and its table is cached and valid
RequestHit(c, T) ==
    /\ GetHit(c, T, "async")
    /\ overlap' = IF Flying THEN [overlap EXCEPT !.done = @ \cup {"hit"}] ELSE overlap
    /\ UNCHANGED <<life, call, bot, payments_handler, next_run_time, job, ran, last_run, lastFailure>>

\* a command handler calls get_sheet_data and its table has to be fetched
Request(c, T) ==
    /\ get_sheet_data(c, T)
    /\ overlap' = IF c = "c1" THEN NoOverlap
                  ELSE IF Flying /\ T # co["c1"].table
                       THEN [overlap EXCEPT !.got = TRUE]
                       ELSE overlap
    /\ UNCHANGED <<life, call, bot, payments_handler, next_run_time, job, ran, last_run, lastFailure>>

\* the worker's fetch for a command handler returns
RequestFetched(c, outcome) ==
    /\ WorkerFetch(c, outcome)
    /\ overlap' = IF c = "c1" THEN NoOverlap ELSE overlap
    /\ UNCHANGED <<life, call, bot, payments_handler, next_run_time, job, ran, last_run, lastFailure,
                   requests>>

\* the command handler goes on after its await
RequestResumed(c) ==
    /\ Resume(c)
    /\ overlap' = IF c = "c2" /\ overlap.got
                  THEN [overlap EXCEPT !.got = FALSE,
                                       !.done = IF Flying THEN @ \cup {"get"} ELSE @]
                  ELSE overlap
    /\ UNCHANGED <<life, call, bot, payments_handler, next_run_time, job, ran, last_run, lastFailure,
                   requests>>

\* the loop's thread is inside a blocking remote fetch
Blocked == loop.op = "get" /\ co[loop.c].pc = "blocked"

\* the run times of the runs that wait for the loop: due and not yet
\* submitted, or submitted and not yet begun
Waiting ==
    {next_run_time[j] : j \in {k \in Jobs : next_run_time[k] <= now}}
    \cup {job[j].run_time : j \in {k \in Jobs : job[k].pc = "submitted"}}

\* Time passes.  An idle loop runs what is ready at once, so time passes to the
\* scheduler's next timer when nothing waits for the loop; a loop that is
\* blocked in a remote fetch lets fire times go by, one grace time at a time.
Advance(until) ==
    /\ \/ /\ Waiting = {}
          /\ Blocked \/ (loop = LoopFree /\ \A c \in Callers : co[c].pc # "resume")
          /\ now' = Least({next_run_time[j] : j \in Jobs})
       \/ /\ Waiting # {}
          /\ Blocked
          /\ now + misfire_grace_time - Least(Waiting) <= MaxLate * misfire_grace_time
          /\ now' = now + misfire_grace_time
    /\ now' <= until
    /\ prev' = [T \in Tables |->
                   IF now' - prev[T].at < _cache_duration THEN prev[T] ELSE NoStore]
    /\ lastGet' = NoGet
    /\ UNCHANGED <<config, sheet, entries, co, loop, pairing, invalidated, sched>>

\* UMBot.__init__ and run(): the cache is empty and scheduler.start(), called
\* at time t0, has added the four jobs
Started(t0) ==
    /\ now = t0
    /\ service = TRUE
    /\ sheets_id = TRUE
    /\ sheet = [T \in Tables |-> "r1"]
    /\ _cache = << >>
    /\ _cache_timestamps = << >>
    /\ co = [c \in Slots |-> IdleCo]
    /\ loop = LoopFree
    /\ lastGet = NoGet
    /\ pairing = [T \in Tables |-> "paired"]
    /\ prev = [T \in Tables |-> NoStore]
    /\ invalidated = [T \in Tables |-> FALSE]
    /\ bot \in BOOLEAN
    /\ payments_handler = FALSE
    /\ next_run_time = [j \in Jobs |-> FirstFire(j, now)]
    /\ job = [j \in Jobs |-> NoJob]
    /\ ran = NoRun
    /\ last_run = [j \in Jobs |-> NoAge]
    /\ lastFailure = NoFailure
    /\ overlap = NoOverlap
    /\ requests = 0
    /\ life = Running

\* the bot as started at time t0, no call of a function recorded
BotInit(t0) == Started(t0) /\ call = NoCall

\* The scheduler's jobs over a Monday morning, with the /pagos command
SchedInit == BotInit(StartTime)

SchedNext ==
    \/ RequestHit("c1", "pagos") /\ UNCHANGED requests
    \/ Request("c1", "pagos") /\ UNCHANGED requests
    \/ \E o \in Outcomes : RequestFetched("c1", o)
    \/ RequestResumed("c1")
    \/ set_payments_handler
    \/ \E j \in Jobs : Fire(j)
    \/ \E j \in Jobs : StartJob(j)
    \/ \E j \in Jobs, o \in Outcomes : JobFetched(j, o)
    \/ \E j \in Jobs, ok \in BOOLEAN : Send(j, ok)
    \/ \E j \in Jobs, ok \in BOOLEAN : GetMe(j, ok)
    \/ Advance(Horizon)

SchedSpec == SchedInit /\ [][SchedNext]_vars

\* Interactive requests on both tables together with the reminders of Monday
\* 09:05 and 09:06, in the bot as bot.py wires it: set_payments_handler is
\* never called
CoopInit == BotInit(CoopStartTime)

CoopNext ==
    \/ \E c \in Callers, T \in Tables :
          requests < MaxRequests /\ requests' = requests + 1 /\ RequestHit(c, T)
    \/ \E c \in Callers, T \in Tables :
          requests < MaxRequests /\ requests' = requests + 1 /\ Request(c, T)
    \/ \E c \in Callers, o \in Outcomes : RequestFetched(c, o)
    \/ \E c \in Callers : RequestResumed(c)
    \/ \E j \in Jobs : Fire(j)
    \/ \E j \in Jobs : StartJob(j)
    \/ \E j \in Jobs, ok \in BOOLEAN : Send(j, ok)
    \/ Advance(CoopHorizon)

CoopSpec == CoopInit /\ [][CoopNext]_vars

\* The scheduler started, stopped and started again, and asked for its status
LifeInit == BotInit(StartTime)

LifeNext ==
    \/ set_payments_handler
    \/ \E j \in Jobs : Fire(j)
    \/ \E j \in Jobs : StartJob(j)
    \/ \E j \in Jobs, o \in Outcomes : JobFetched(j, o)
    \/ \E j \in Jobs, ok \in BOOLEAN : Send(j, ok)
    \/ \E j \in Jobs, ok \in BOOLEAN : GetMe(j, ok)
    \/ Advance(Horizon)
    \/ start
    \/ stop
    \/ AskStatus

LifeSpec == LifeInit /\ [][LifeNext]_vars

---------------------------------------------------------------------------
(* CronTrigger.get_next_fire_time *)

\* the fields of the CronTrigger of job j match the instant t (seconds since a
\* Monday 00:00:00): hour=9, minute=5; day_of_week='mon', hour=9, minute=6;
\* day_of_week='sun', hour=2, minute=0; hour='*/6'
Matches(j, t) ==
    CASE j = "daily_payment_reminder"  -> t % Day = 9 * Hour + 5 * Minute
      [] j = "weekly_events_reminder"  -> t % Week = Mon * Day + 9 * Hour + 6 * Minute
      [] j = "clear_cache_job"         -> t % Week = Sun * Day + 2 * Hour
      [] j = "health_check"            -> t % (6 * Hour) = 0

\* the current times at which a next fire time is asked for
QueryTimes ==
    {d * Day + h * Hour + m * Minute : d \in Days, h \in {0, 2, 6, 9, 18}, m \in {0, 5, 6}}

\* the scheduler asks the trigger of a job for its next fire time
AskNextFire ==
    /\ call.op = "get_next_fire_time"
    /\ ~call.done
    /\ call' = [call EXCEPT !.done = TRUE, !.result = NextFire(call.job, call.t)]
    /\ UNCHANGED <<now, config, sheet, entries, co, loop, lastGet, pairing, prev,
                   invalidated, life, bot, payments_handler, next_run_time, job,
                   history, requests>>

---------------------------------------------------------------------------
(* main(): UMBot() and run() *)

\* the hours the assembled bot is followed
BootHours == 8

\* GOOGLE_CREDENTIALS_FILE: a file Credentials can be read from, no file, or
\* a file from_service_account_file raises on
Credentials == {"ok", "missing", "invalid"}

\* the environment: TELEGRAM_BOT_TOKEN and GOOGLE_SHEETS_ID set or not, and the
\* credentials file
Envs == [token : BOOLEAN, sheets_id : BOOLEAN, credentials : Credentials]

\* main() is called on a Sunday at 01:59 and the bot is followed for BootHours
BootTime == Sun * Day + 2 * Hour - Minute
BootHorizon == BootTime + BootHours * Hour

\* UMBot.__init__: without the token it raises ValueError; otherwise it builds
\* the GoogleSheetsManager (a missing GOOGLE_SHEETS_ID is a warning, a missing
\* or unreadable credentials file an error line, and service stays None), the
\* Scheduler (whose bot is built from the same token) and the handlers.
\* set_payments_handler is not called.
UMBot ==
    /\ call.op = "main"
    /\ call.pc = "called"
    /\ IF ~call.env.token
       THEN /\ call' = [call EXCEPT !.pc = "raised"]
            /\ UNCHANGED <<config, bot>>
       ELSE /\ call' = [call EXCEPT !.pc = "constructed"]
            /\ sheets_id' = call.env.sheets_id
            /\ service' = (call.env.credentials = "ok")
            /\ bot' = TRUE
    /\ lastGet' = NoGet
    /\ UNCHANGED <<now, sheet, entries, co, loop, pairing, prev, invalidated, life,
                   payments_handler, next_run_time, job, history, requests>>

\* UMBot.run() has started the scheduler and polls for updates
Serving == call.op = "main" /\ call.pc = "constructed" /\ life.state = "running"

\* main() about to be called: nothing is constructed
BootInit ==
    /\ now = BootTime
    /\ service = FALSE
    /\ sheets_id = FALSE
    /\ sheet = [T \in Tables |-> "r1"]
    /\ _cache = << >>
    /\ _cache_timestamps = << >>
    /\ co = [c \in Slots |-> IdleCo]
    /\ loop = LoopFree
    /\ lastGet = NoGet
    /\ pairing = [T \in Tables |-> "paired"]
    /\ prev = [T \in Tables |-> NoStore]
    /\ invalidated = [T \in Tables |-> FALSE]
    /\ bot = FALSE
    /\ payments_handler = FALSE
    /\ next_run_time = [j \in Jobs |-> NoAge]
    /\ job = [j \in Jobs |-> NoJob]
    /\ ran = NoRun
    /\ last_run = [j \in Jobs |-> NoAge]
    /\ lastFailure = NoFailure
    /\ overlap = NoOverlap
    /\ requests = 0
    /\ life = [Running EXCEPT !.state = "new", !.store = << >>]
    /\ call \in {[op |-> "main", pc |-> "called", env |-> e] : e \in Envs}

\* The assembled bot: main() constructs UMBot, run() starts the scheduler, and
\* then commands are served and jobs fire
BootNext ==
    \/ UMBot
    \/ call.op = "main" /\ call.pc = "constructed" /\ life.state = "new" /\ start
    \/ \E T \in Tables : Serving /\ RequestHit("c1", T) /\ UNCHANGED requests
    \/ \E T \in Tables : Serving /\ Request("c1", T) /\ UNCHANGED requests
    \/ \E o \in Outcomes : RequestFetched("c1", o)
    \/ RequestResumed("c1")
    \/ \E j \in Jobs : Fire(j)
    \/ \E j \in Jobs : StartJob(j)
    \/ \E j \in Jobs, ok \in BOOLEAN : GetMe(j, ok)
    \/ Serving /\ Advance(BootHorizon)

BootSpec == BootInit /\ [][BootNext]_vars

\* the calls followed one at a time, each from its arguments to its return
Calls ==
    {[op |-> "get_urgent_payments", done |-> FALSE, rows |-> t, result |-> << >>] :
        t \in PaymentTables}
    \cup
    {[op |-> "send_urgent_notification", pc |-> "called", user_ids |-> u,
      target |-> << >>, attempts |-> << >>, logged |-> << >>] : u \in UserIdLists}
    \cup
    {[op |-> "_parse_admin_ids", done |-> FALSE, admin_ids_str |-> a, result |-> << >>] :
        a \in AdminIdStrings}
    \cup
    {[op |-> "split_message", done |-> FALSE, text |-> t, max_length |-> m,
      result |-> << >>] : t \in Texts, m \in 1..MaxLimit}
    \cup
    {[op |-> "get_next_fire_time", done |-> FALSE, job |-> j, t |-> t, result |-> None] :
        j \in Jobs, t \in QueryTimes}

\* One call of a function of the bot, made on a Tuesday with the bot started
\* (UMBot.__init__ raises without TELEGRAM_BOT_TOKEN, so the scheduler has its bot)
CallInit ==
    /\ \E tod \in TimesOfDay : Started(Today + tod)
    /\ bot
    /\ call \in Calls

CallNext ==
    \/ AskUrgent
    \/ NotifyBegin
    \/ \E ok \in BOOLEAN : NotifySend(ok)
    \/ AskParse
    \/ AskSplit
    \/ AskNextFire

CallSpec == CallInit /\ [][CallNext]_vars


---------------------------------------------------------------------------
(* The freshness cache: claims C1 to C6, checked under Spec *)

\* a get has just checked the cache for its table (and returned, or started a refresh)
Checked == lastGet.kind \in {"hit", "miss"}

\* the entry of T is in its freshness window
InWindow(T) ==
    T \in DOMAIN _cache_timestamps /\ now - _cache_timestamps[T] < _cache_duration

\* the stores of T since T was last cleared that are in their freshness window:
\* the latest one, and the one it replaced
StoresInWindow(T) ==
    {[at |-> _cache_timestamps[x], rows |-> cache_get(x)] : x \in {y \in {T} : InWindow(y)}}
    \cup {h \in {prev[T]} : h # NoStore /\ now - h.at < _cache_duration}

\* C1 as stated: a get(T) less than cache_duration after a get stored T, with
\* no invalidate of T in between, returns the rows of that store and does not
\* call the remote source.
C1_AsStated ==
    Checked =>
        \A h \in StoresInWindow(lastGet.table) :
            lastGet.kind = "hit" /\ lastGet.calls = 0 /\ lastGet.rows = h.rows

\* C1 (amended): a get(T) less than cache_duration after the latest store of T,
\* with no invalidate of T in between, returns the rows of that latest store
\* and does not call the remote source.
C1_FreshHit ==
    Checked /\ InWindow(lastGet.table) =>
        /\ lastGet.kind = "hit"
        /\ lastGet.calls = 0
        /\ lastGet.table \in DOMAIN _cache
        /\ lastGet.rows = _cache[lastGet.table]

\* C1 witness: a get is served from an entry stored at an earlier time
C1_Witness ==
    /\ lastGet.kind = "hit"
    /\ lastGet.rows # <<>>
    /\ now > _cache_timestamps[lastGet.table]

\* C2: a get(T) treats T's entry as fresh iff now - fetch_timestamp(T) <
\* cache_duration, whatever the other tables' timestamps are; a get that finds
\* T without entry or not fresh (also at exactly cache_duration) calls the
\* remote source once and replaces T's entry.
C2_FreshIff ==
    /\ lastGet.kind = "hit" => lastGet.age # NoAge /\ lastGet.age < _cache_duration
    /\ lastGet.kind = "miss" => lastGet.age = NoAge \/ lastGet.age >= _cache_duration
    /\ lastGet.kind = "return" =>
          /\ lastGet.calls = 1
          /\ lastGet.table \in DOMAIN _cache
          /\ _cache[lastGet.table] = lastGet.rows
          /\ lastGet.table \in DOMAIN _cache_timestamps
          /\ _cache_timestamps[lastGet.table] = now

\* C2 witness: a get finds its entry exactly cache_duration old, while the
\* other table's entry is fresh, and refreshes
C2_Witness ==
    /\ lastGet.kind = "miss"
    /\ lastGet.age = _cache_duration
    /\ \E U \in Tables \ {lastGet.table} : InWindow(U)

\* C3: when the remote fetch fails, the get returns the empty sequence (both
\* forms) and no exception leaves _fetch_sheet_data or the get.
C3_FailureIsEmpty ==
    /\ lastGet.kind = "return" /\ lastGet.failed => lastGet.rows = <<>>
    /\ \A c \in Callers : co[c].pc = "resume" /\ co[c].failed =>
            co[c].rows = <<>> /\ ~co[c].raised

\* C3 witness: a get whose fetch failed returns while rows of the table were cached
C3_Witness ==
    /\ lastGet.kind = "return"
    /\ lastGet.failed
    /\ service /\ sheets_id
    /\ prev[lastGet.table] # NoStore

\* C4 as stated: the first get(T) after T was cleared calls the remote source.
C4_AsStated ==
    Checked /\ lastGet.afterInv => lastGet.kind = "miss"

\* C5: the entry a get observes has rows and timestamp written by one refresh.
C5_AtomicReplace ==
    Checked /\ lastGet.table \in DOMAIN _cache_timestamps =>
        /\ lastGet.table \in DOMAIN _cache
        /\ pairing[lastGet.table] = "paired"

\* C5 witness: a get observes an entry that a second, concurrent refresh replaced
C5_Witness ==
    /\ lastGet.kind = "hit"
    /\ prev[lastGet.table] # NoStore
    /\ \E c \in Callers : co[c].pc = "resume"

\* the entry of table U, as a get would see it
EntryOf(U) ==
    [cached |-> U \in DOMAIN _cache, rows |-> cache_get(U),
     stamped |-> U \in DOMAIN _cache_timestamps, age |-> Age(U)]

\* C6: clear_cache(T) with a table name leaves the entry of every other table
\* as it is, and a fresh one is still served from the cache.
C6_ClearOneTable ==
    [][\A T \in Tables :
         clear_cache(T) =>
            /\ T \notin DOMAIN _cache' /\ T \notin DOMAIN _cache_timestamps'
            /\ \A U \in Tables \ {T} :
                 /\ EntryOf(U)' = EntryOf(U)
                 /\ _is_cache_valid(U) => _is_cache_valid(U)']_vars

\* C6 witness: one table was cleared and a get of the other is served from the cache
C6_Witness ==
    /\ lastGet.kind = "hit"
    /\ \E T \in Tables \ {lastGet.table} :
          invalidated[T] /\ T \notin DOMAIN _cache /\ prev[lastGet.table] = NoStore

---------------------------------------------------------------------------
(* The event loop and the scheduler: claims C7 to C10 *)

\* C7 (CoopSpec): a non-blocking get that waits for its remote fetch does not
\* occupy the event loop: while the fetch is with the worker and no other
\* coroutine is running, a request for another table can begin, a due job can
\* be fired and a submitted run can begin.
C7_LoopStaysFree ==
    \A c \in Callers :
        co[c].pc = "inflight" =>
            /\ loop.c # c
            /\ loop = LoopFree =>
                  /\ \A d \in Callers, T \in Tables \ {co[c].table} :
                        FirstFree(d) => ENABLED (Request(d, T) \/ RequestHit(d, T))
                  /\ \A j \in Jobs : next_run_time[j] <= now => ENABLED Fire(j)
                  /\ \A j \in Jobs : job[j].pc = "submitted" => ENABLED StartJob(j)

\* C7 witness: the fetch of caller c1 is still in flight, and since it began a
\* non-blocking get of another table, a cache hit and a fired job have begun
\* and ended
C7_Witness ==
    /\ Flying
    /\ overlap.done = {"get", "hit", "job"}

\* C8 as stated (SchedSpec): every run of a job begins at its fire time; none
\* waits for a remote fetch of another handler, and none is dropped as missed.
C8_AsStated ==
    ran.kind # "none" => ran.kind = "started" /\ ran.at = ran.run_time

\* C9 as stated (SchedSpec): after a handler has failed, every job still holds
\* its regular next fire time, and a run of another job whose fire time fell
\* inside the failed run began at its fire time.
C9_AsStated ==
    /\ \A j \in Jobs : next_run_time[j] > now => next_run_time[j] = NextFire(j, now)
    /\ ran.kind # "none" /\ lastFailure.job \notin {"-", ran.job}
       /\ lastFailure.from <= ran.run_time /\ ran.run_time < lastFailure.to
          => ran.kind = "started" /\ ran.at = ran.run_time

\* C10 (SchedSpec): a handler that begins runs the latest fire time of its
\* job, and the handler's previous begin lies before that fire time: two
\* begins of one job are separated by a fire time of the job.  No handler
\* begins more than the grace time after its own fire time (no catch-up).
C10_AtMostOnce ==
    /\ ran.kind = "started" =>
          /\ ran.run_time = PrevFire(ran.job, ran.at)
          /\ ran.before < ran.run_time
    /\ \A j \in Jobs : last_run[j] # NoAge =>
          last_run[j] - PrevFire(j, last_run[j]) <= misfire_grace_time

\* C10 witness: the handler of a job begins at the fire time after the one on
\* which it failed
C10_Witness ==
    /\ ran.kind = "started"
    /\ ran.job = lastFailure.job
    /\ ran.before = lastFailure.from
    /\ ran.run_time = NextFire(ran.job, lastFailure.from)


---------------------------------------------------------------------------
(* Claims about start(), stop() and get_job_status() *)

\* C11 (as stated): after stop() no run begins any more, and every handler
\* that was running when stop() was called is not interrupted: it runs to its
\* end, remaining sends included.
C11_AsStated ==
    /\ life.cut = {}
    /\ life.state = "stopped" => \A j \in Jobs : job[j].pc # "submitted"

\* C12 (as stated): a start() that adds a job id the store already holds
\* fails with an error its caller gets; no id is in the store twice.
C12_AsStated ==
    /\ life.refused => life.raised
    /\ \A i, k \in DOMAIN life.store : life.store[i] = life.store[k] => i = k

---------------------------------------------------------------------------
(* Claims about get_urgent_payments *)

\* the query has returned
UrgentDone == call.op = "get_urgent_payments" /\ call.done

\* the calendar day of a time, counted from 1 January of Year
DayOf(t) == t \div Day

\* the dates of the records of the result
ResultDates == {call.result[i].fecha : i \in DOMAIN call.result}

\* C14 (as stated): at any time of day the result holds a record iff its date
\* parses and its calendar day lies between today and today + 7 inclusive.
C14_AsStated ==
    UrgentDone =>
        \A i \in DOMAIN call.rows :
            LET parsed == strptime(GetFecha(call.rows[i]))
            IN  (parsed.ok /\ parsed.date \in ResultDates)
                    <=> /\ parsed.ok
                        /\ DayOf(now) <= DayOf(parsed.date)
                        /\ DayOf(parsed.date) <= DayOf(now) + 7

\* C15 (as stated): the result is sorted ascending by date, whatever the order
\* of the rows of the table.
C15_AsStated ==
    UrgentDone =>
        \A i, k \in DOMAIN call.result :
            i < k => call.result[i].fecha <= call.result[k].fecha

\* the date of the row parses
Parses(payment) == strptime(GetFecha(payment)).ok

\* C16: rows whose date is missing, empty or not in the format are not in the
\* result, and the result is the one of the table without those rows.
C16_BadDatesSkipped ==
    UrgentDone =>
        /\ \A i \in DOMAIN call.rows :
              ~Parses(call.rows[i]) => NoAge \notin ResultDates
        /\ \A i \in DOMAIN call.result :
              \E k \in DOMAIN call.rows :
                  /\ Parses(call.rows[k])
                  /\ strptime(GetFecha(call.rows[k])).date = call.result[i].fecha
        /\ call.result = get_urgent_payments(SelectSeq(call.rows, Parses), now)

\* a table with a row without a date before a row due in three days: the
\* result is that one record
C16_Witness ==
    /\ UrgentDone
    /\ Len(call.rows) = 2
    /\ ~Parses(call.rows[1])
    /\ Parses(call.rows[2])
    /\ Len(call.result) = 1
    /\ call.result[1].fecha = strptime(GetFecha(call.rows[2])).date


---------------------------------------------------------------------------
(* Claims about send_urgent_notification *)

\* the chat ids of the sends attempted so far, in order
Attempted == [i \in DOMAIN call.attempts |-> call.attempts[i].chat_id]

\* the send to the user raised
Raised(i) == ~call.attempts[i].ok

\* the chat ids of the attempts that raised, in order
Failed == LET idx == SelectSeq([i \in DOMAIN call.attempts |-> i], Raised)
          IN  [i \in DOMAIN idx |-> call.attempts[idx[i]].chat_id]

\* C17: the notification attempts a send to every recipient in list order
\* whatever sends raise; a send that raises is logged for its recipient only
\* and the later sends are still attempted; the notification never raises.
C17_EveryRecipientTried ==
    call.op = "send_urgent_notification" =>
        /\ call.pc # "raised"
        /\ Attempted = SubSeq(call.target, 1, Len(call.attempts))
        /\ call.logged = Failed
        /\ call.pc = "returned" => Attempted = target_users(call.user_ids)

\* three recipients, the send to the second raises: three sends attempted,
\* one failure logged
C17_Witness ==
    /\ call.op = "send_urgent_notification"
    /\ call.pc = "returned"
    /\ Len(call.target) = 3
    /\ Len(call.attempts) = 3
    /\ call.attempts[1].ok /\ ~call.attempts[2].ok /\ call.attempts[3].ok
    /\ call.logged = << call.target[2] >>


---------------------------------------------------------------------------
(* Claims about _parse_admin_ids *)

\* the entry is an integer
ValidId(uid) == int(uid).ok

\* the entries of the string that are integers, in order
ValidIds(admin_ids_str) ==
    LET uids == SelectSeq(split(admin_ids_str, ","), ValidId)
    IN  [i \in DOMAIN uids |-> int(uids[i]).value]

\* C18 (as stated): parsing yields, in their order, exactly the entries that
\* are valid integers; an invalid entry removes no valid one.
C18_AsStated ==
    call.op = "_parse_admin_ids" /\ call.done =>
        call.result = ValidIds(call.admin_ids_str)

---------------------------------------------------------------------------
(* Claims about split_message *)

\* the split has returned
SplitDone == call.op = "split_message" /\ call.done

\* C19 (as stated): every chunk has length <= max_length.
C19_AsStated ==
    SplitDone => \A i \in DOMAIN call.result : Len(call.result[i]) <= call.max_length

RECURSIVE Flatten(_)
\* the chunks one after the other
Flatten(chunks) == IF chunks = << >> THEN << >> ELSE Head(chunks) \o Flatten(Tail(chunks))

IsInk(c) == c \notin Whitespace

\* the characters of a text that are not whitespace, in order
Ink(text) == SelectSeq(text, IsInk)

\* C20 (as stated): a text longer than the limit gives at least two chunks,
\* which hold every non-whitespace character once and in order; a text no
\* longer than the limit is returned as the single chunk.
C20_AsStated ==
    SplitDone =>
        IF Len(call.text) > call.max_length
        THEN /\ Len(call.result) >= 2
             /\ Ink(Flatten(call.result)) = Ink(call.text)
        ELSE call.result = << call.text >>

\* C20 (amended): the chunks of a text longer than the limit hold every
\* non-whitespace character once and in order, and are at least two when the
\* text has more non-whitespace characters than the limit; a text no longer
\* than the limit is returned as the single chunk.
C20_InkKept ==
    SplitDone =>
        IF Len(call.text) > call.max_length
        THEN /\ Ink(Flatten(call.result)) = Ink(call.text)
             /\ Len(Ink(call.text)) > call.max_length => Len(call.result) >= 2
        ELSE call.result = << call.text >>

\* "a \nbb" with limit 2: the chunks "a" and "bb" (the blank and the line
\* break at the boundary are lost)
C20_Witness ==
    /\ SplitDone
    /\ call.text = << "a", " ", NL, "b", "b" >>
    /\ call.max_length = 2
    /\ call.result = << << "a" >>, << "b", "b" >> >>


---------------------------------------------------------------------------
(* Claims about the assembled bot *)

\* C21 (as stated): with the token, the spreadsheet id or the credentials file
\* missing, startup ends with an error before a job is scheduled or a request
\* served: the bot never runs with the data source unconfigured.
C21_AsStated ==
    call.op = "main" /\ (life.state = "running" \/ \E c \in Slots : co[c].pc # "idle")
        => call.env.token /\ call.env.sheets_id /\ call.env.credentials = "ok"

\* the handler of job j begins in this step
Begins(j) == job[j].pc = "submitted" /\ ran'.kind = "started" /\ ran'.job = j /\ ran' # ran

\* C22 (as stated): each run of the weekly cache sweep leaves the cache with
\* no entry for any table.
C22_AsStated ==
    [][Begins("clear_cache_job") => _cache' = << >> /\ _cache_timestamps' = << >>]_vars

\* C23 (as stated): in the assembled bot, when the daily payment reminder
\* runs (the table has rows and there is a recipient) it asks the cache for the
\* payments table before it filters and sends.
C23_AsStated ==
    [][Begins("daily_payment_reminder") =>
          lastGet'.kind \in {"hit", "miss"} /\ lastGet'.table = "pagos"]_vars


---------------------------------------------------------------------------
(* Claims about the jobs and their triggers *)

NextFireDone == call.op = "get_next_fire_time" /\ call.done

C26_AsStated ==
    ran.kind = "started" =>
        CASE ran.job = "daily_payment_reminder"  -> ran.run_time % Day = 9 * Hour
          [] ran.job = "weekly_events_reminder"  -> ran.run_time % Week = Mon * Day + 8 * Hour
          [] ran.job = "clear_cache_job"         -> ran.run_time % Week = Sun * Day + 2 * Hour
          [] ran.job = "health_check"            -> ran.run_time % (6 * Hour) = 0


---------------------------------------------------------------------------
(* Claims about failed fetches, invalidation and the two dictionaries *)

C28_AsStated ==
    \A T \in Tables : invalidated[T] => T \notin DOMAIN _cache

\* C29: the tables with rows in _cache are the tables with a timestamp.
C29_SameTables ==
    DOMAIN _cache = DOMAIN _cache_timestamps

\* a get whose fetch failed has just stored its table while the other table,
\* cleared before, has no entry
C29_Witness ==
    /\ lastGet.kind = "return"
    /\ lastGet.failed
    /\ DOMAIN _cache = {lastGet.table}
    /\ DOMAIN _cache_timestamps = {lastGet.table}
    /\ \E T \in Tables \ {lastGet.table} : invalidated[T]

\* C30 (as stated): with user_ids given, the notification attempts one send to
\* each listed recipient and to nobody else, none for the empty list.
C30_AsStated ==
    call.op = "send_urgent_notification" /\ call.pc = "returned" /\ call.user_ids.given
        => Attempted = call.user_ids.ids

====
